---- MODULE Spec2Model ----
(***************************************************************************)
(* Business-day calculator (global-business-day-calculator/app.py).        *)
(*                                                                         *)
(* A date is the number of days since 0001-01-01, the smallest datetime;   *)
(* that day is a Monday, so weekday(d) = d % 7 with Monday = 0.  The       *)
(* dates given to the program (start, end, holidays, makeup days) are the  *)
(* first MaxDate + 1 days.  The largest datetime is LastDate: adding a day *)
(* to it raises OverflowError, as datetime + timedelta does at             *)
(* datetime.max.  LastDate lies MaxCount weeks after the dates given, so   *)
(* that a day-by-day walk runs past it only when no later day could end    *)
(* the walk either.                                                        *)
(*                                                                         *)
(* Four parts (the engine, the merge, the resolver, and the calculation    *)
(* that joins them), with six specifications over the same variables:      *)
(*   SpecEngine   is_business_day, calculate_days_between,                 *)
(*                get_future_business_date                                 *)
(*   SpecMerge    merge_calendar_rules                                     *)
(*   SpecMergeOrder  the same, over the rule sets tried in every order     *)
(*   SpecResolve  get_calendar_rules, with load_custom_rules run between   *)
(*                resolutions (as the program does: once, at startup)      *)
(*   SpecReload   the same, with load_custom_rules run at any moment       *)
(*   SpecCalculate  the POST /api/calculate endpoint: get_calendar_rules,  *)
(*                merge_calendar_rules and perform_calculation in one call *)
(***************************************************************************)
EXTENDS Integers, Sequences, FiniteSets, TLC

\* ------------------------------------------------------------------ bounds

\* The last date given to the program as a start, an end, a holiday or a
\* makeup day.
MaxDate == 7
\* The largest number of business days asked of get_future_business_date.
MaxCount == 2
\* The largest number of holidays and makeup days, taken together, in an
\* engine rule set.
MaxRuleDates == 2
\* The largest number of calendars merged.
MaxCalendars == 2

Dates == 0 .. MaxDate

\* The last representable date (the model's datetime.max), and the calendar.
LastDate == MaxDate + 7 * MaxCount
Calendar == 0 .. LastDate

\* ------------------------------------------------------------------ state

VARIABLES
    \* --- engine: the arguments of the call in progress and its outcome
    operation,          \* "none" | "days_between" | "get_future_date"
    weekend_days_set,   \* set of weekday numbers
    holidays_set,       \* set of dates
    makeup_days_set,    \* set of dates
    start_date,
    end_date,
    business_days,      \* get_future_business_date's argument
    returned,           \* the value returned (a count, or a date)
    raised,             \* "" | the exception the call ended with
    data,               \* request.json of the POST /api/calculate in progress
    result,             \* the response to it: its status and its JSON body
    \* --- merge: merge_calendar_rules' argument and its result
    calendar_rules_list,
    merged,
    merge_pc,           \* "ready" | "done"
    \* --- resolver: the override store, the holidays library's data, and the
    \* call of get_calendar_rules in progress
    custom_rules,       \* the global: identifier -> override record
    library,            \* <<country, subdivision>> -> year -> set of dates
    resolve_pc,         \* "idle" | "merge" | "fetch" | "done"
    calendar_id,
    years,
    rules,              \* get_calendar_rules' local dict, returned at the end
    resolve_error,      \* "" | the exception get_calendar_rules ended with
    seen                \* at each read of custom_rules by the call, in order:
                        \* whether calendar_id was in it

engine_vars == << operation, weekend_days_set, holidays_set, makeup_days_set,
                  start_date, end_date, business_days, returned, raised,
                  data, result >>

merge_vars == << calendar_rules_list, merged, merge_pc >>

resolve_vars == << custom_rules, library, resolve_pc, calendar_id, years,
                   rules, resolve_error, seen >>

vars == << engine_vars, merge_vars, resolve_vars >>

\* The engine before any call, with no rule set.
IdleEngine ==
    /\ operation = "none"
    /\ weekend_days_set = {}
    /\ holidays_set = {}
    /\ makeup_days_set = {}
    /\ start_date = 0
    /\ end_date = 0
    /\ business_days = 0
    /\ returned = 0
    /\ raised = ""
    /\ data = << >>
    /\ result = << >>

\* ------------------------------------------------------------------ data

\* What a function call ends with: a value, or an exception.
Return(v) == [error |-> "", value |-> v]
Raise(e) == [error |-> e, value |-> 0]

\* The "%Y-%m-%d" strings of the first dates, in date order.
IsoStrings ==
    <<
       "0001-01-01", "0001-01-02", "0001-01-03", "0001-01-04", "0001-01-05", "0001-01-06",
       "0001-01-07", "0001-01-08", "0001-01-09", "0001-01-10", "0001-01-11", "0001-01-12",
       "0001-01-13", "0001-01-14", "0001-01-15", "0001-01-16", "0001-01-17", "0001-01-18",
       "0001-01-19", "0001-01-20", "0001-01-21", "0001-01-22", "0001-01-23", "0001-01-24",
       "0001-01-25", "0001-01-26", "0001-01-27", "0001-01-28", "0001-01-29", "0001-01-30",
       "0001-01-31", "0001-02-01", "0001-02-02", "0001-02-03", "0001-02-04", "0001-02-05",
       "0001-02-06", "0001-02-07", "0001-02-08", "0001-02-09", "0001-02-10", "0001-02-11",
       "0001-02-12", "0001-02-13", "0001-02-14", "0001-02-15", "0001-02-16", "0001-02-17"
    >>

\* A string that is no date.
Malformed == "not-a-date"

\* date_obj.strftime("%Y-%m-%d")
strftime(date) == IsoStrings[date + 1]

\* datetime.strptime(s, "%Y-%m-%d"): the date, or ValueError for a string
\* that is not the text of a representable date.
strptime(s) ==
    IF \E d \in Calendar : strftime(d) = s
    THEN Return(CHOOSE d \in Calendar : strftime(d) = s)
    ELSE Raise("ValueError")

\* The place of a string in Python's string order: "%Y-%m-%d" strings sort
\* in date order, and a string starting with a letter after every digit.
StrRank(s) ==
    IF \E i \in 1 .. Len(IsoStrings) : IsoStrings[i] = s
    THEN CHOOSE i \in 1 .. Len(IsoStrings) : IsoStrings[i] = s
    ELSE Len(IsoStrings) + 1

\* set(a_list)
ToSet(list) == { list[i] : i \in 1 .. Len(list) }

\* sorted(list(a_set)) for a set of integers, and for a set of strings.
sorted_ints(S) ==
    [i \in 1 .. Cardinality(S) |->
        CHOOSE x \in S : Cardinality({ y \in S : y < x }) = i - 1]

sorted_strs(S) ==
    LET rank == [x \in S |-> StrRank(x)]
    IN  [i \in 1 .. Cardinality(S) |->
            CHOOSE x \in S : Cardinality({ y \in S : rank[y] < rank[x] }) = i - 1]

\* a_dict.get(key, [])
Get(dict, key) == IF key \in DOMAIN dict THEN dict[key] ELSE << >>

\* ------------------------------------------------------------------ merge

\* A variant that keeps only the weekend days every calendar has.
merge_calendar_rules_common_weekend(rules_list) ==
    IF rules_list = << >>
    THEN [weekend_days |-> << >>, holidays |-> << >>, makeup_days |-> << >>]
    ELSE IF Len(rules_list) = 1
    THEN rules_list[1]
    ELSE [weekend_days |->
              sorted_ints({ w \in 0 .. 6 : \A i \in 1 .. Len(rules_list) :
                              w \in ToSet(Get(rules_list[i], "weekend_days")) }),
          holidays |-> sorted_strs(UNION { ToSet(Get(rules_list[i], "holidays")) :
                              i \in 1 .. Len(rules_list) }),
          makeup_days |-> sorted_strs(UNION { ToSet(Get(rules_list[i], "makeup_days")) :
                              i \in 1 .. Len(rules_list) })]

\* A variant without the shortcut for a single calendar.
merge_calendar_rules_single_sorted(rules_list) ==
    IF rules_list = << >>
    THEN [weekend_days |-> << >>, holidays |-> << >>, makeup_days |-> << >>]
    ELSE [weekend_days |->
              sorted_ints(UNION { ToSet(Get(rules_list[i], "weekend_days")) :
                              i \in 1 .. Len(rules_list) }),
          holidays |-> sorted_strs(UNION { ToSet(Get(rules_list[i], "holidays")) :
                              i \in 1 .. Len(rules_list) }),
          makeup_days |-> sorted_strs(UNION { ToSet(Get(rules_list[i], "makeup_days")) :
                              i \in 1 .. Len(rules_list) })]

\* A variant that keeps only the makeup days every calendar has.
merge_calendar_rules_common_makeup(rules_list) ==
    IF rules_list = << >>
    THEN [weekend_days |-> << >>, holidays |-> << >>, makeup_days |-> << >>]
    ELSE IF Len(rules_list) = 1
    THEN rules_list[1]
    ELSE [weekend_days |->
              sorted_ints(UNION { ToSet(Get(rules_list[i], "weekend_days")) :
                              i \in 1 .. Len(rules_list) }),
          holidays |-> sorted_strs(UNION { ToSet(Get(rules_list[i], "holidays")) :
                              i \in 1 .. Len(rules_list) }),
          makeup_days |->
              sorted_strs({ m \in ToSet(Get(rules_list[1], "makeup_days")) :
                              \A i \in 1 .. Len(rules_list) :
                                  m \in ToSet(Get(rules_list[i], "makeup_days")) })]

\* A variant that extends a list with every calendar's weekend days, neither
\* dropping the repeated ones nor sorting.
RECURSIVE extend_weekend_days(_, _)
extend_weekend_days(rules_list, n) ==
    IF n > Len(rules_list)
    THEN << >>
    ELSE Get(rules_list[n], "weekend_days") \o extend_weekend_days(rules_list, n + 1)

merge_calendar_rules_weekend_extended(rules_list) ==
    IF rules_list = << >>
    THEN [weekend_days |-> << >>, holidays |-> << >>, makeup_days |-> << >>]
    ELSE IF Len(rules_list) = 1
    THEN rules_list[1]
    ELSE [weekend_days |-> extend_weekend_days(rules_list, 1),
          holidays |-> sorted_strs(UNION { ToSet(Get(rules_list[i], "holidays")) :
                              i \in 1 .. Len(rules_list) }),
          makeup_days |-> sorted_strs(UNION { ToSet(Get(rules_list[i], "makeup_days")) :
                              i \in 1 .. Len(rules_list) })]

merge_calendar_rules(rules_list) ==
    IF rules_list = << >>
    THEN [weekend_days |-> << >>, holidays |-> << >>, makeup_days |-> << >>]
    ELSE IF Len(rules_list) = 1
    THEN rules_list[1]
    ELSE LET all_weekend_days ==
                 UNION { ToSet(Get(rules_list[i], "weekend_days")) :
                             i \in 1 .. Len(rules_list) }
             all_holidays ==
                 UNION { ToSet(Get(rules_list[i], "holidays")) :
                             i \in 1 .. Len(rules_list) }
             all_makeup_days ==
                 UNION { ToSet(Get(rules_list[i], "makeup_days")) :
                             i \in 1 .. Len(rules_list) }
         IN  [weekend_days |-> sorted_ints(all_weekend_days),
              holidays |-> sorted_strs(all_holidays),
              makeup_days |-> sorted_strs(all_makeup_days)]

\* The rule sets merge is tried with, shaped as get_calendar_rules returns
\* them: a weekend list as an override may give it (sorted or not, with a
\* repeated day or not), and sorted lists of holiday and makeup strings.
MergeWeekendLists == { << 5, 6 >>, << 4, 5 >>, << 6, 5, 5 >> }
MergeHolidayStrings == { strftime(2), strftime(4) }
MergeMakeupStrings == { strftime(2), strftime(5) }

\* The rule set with no weekend day, no holiday and no makeup day.
EmptyRuleSet == [weekend_days |-> << >>, holidays |-> << >>, makeup_days |-> << >>]

RuleSets ==
    { [weekend_days |-> w, holidays |-> sorted_strs(h), makeup_days |-> sorted_strs(m)] :
        w \in MergeWeekendLists,
        h \in SUBSET MergeHolidayStrings,
        m \in SUBSET MergeMakeupStrings }
        \cup { EmptyRuleSet }

\* Sequences of at most n elements of S.
SeqUpTo(S, n) == UNION { [1 .. k -> S] : k \in 0 .. n }

\* merge_calendar_rules not called yet.
IdleMerge ==
    /\ calendar_rules_list = << >>
    /\ merged = [weekend_days |-> << >>, holidays |-> << >>, makeup_days |-> << >>]
    /\ merge_pc = "ready"

MergeCalendarRules ==
    /\ merge_pc = "ready"
    /\ merged' = merge_calendar_rules(calendar_rules_list)
    /\ merge_pc' = "done"
    /\ UNCHANGED calendar_rules_list
    /\ UNCHANGED << engine_vars, resolve_vars >>

\* ------------------------------------------------------------------ resolver

\* The calendar identifiers tried: a country and a subdivision the holidays
\* library knows, and an identifier it does not know.
CalendarIds == { "CN", "US-NY", "X-CORP" }

\* '-' in calendar_id, and calendar_id.split('-', 1).
HasDash(id) == id \in { "US-NY", "X-CORP" }
SplitId(id) ==
    CASE id = "US-NY" -> << "US", "NY" >>
      [] id = "X-CORP" -> << "X", "CORP" >>
      [] OTHER -> << id >>

\* The years of the calls: [current_year, current_year + 1], as both
\* endpoints pass them, for two current years.
YearLists == { << 2024, 2025 >>, << 2025, 2026 >> }
Years == { 2024, 2025, 2026 }

\* The countries and subdivisions the holidays library supports, and the
\* one date it may or may not list as a holiday in each year.
Supported == { << "CN", "" >>, << "US", "NY" >> }
LibraryDate(year) == (year - 2024) * 2
Libraries == [Supported -> [Years -> { {}, {0}, {2}, {4} }]]
LibraryTables ==
    { lib \in Libraries :
        \A k \in Supported, y \in Years : lib[k][y] \subseteq { LibraryDate(y) } }

\* holidays.country_holidays(country, subdiv=subdiv, years=year).items():
\* the dates, or NotImplementedError for a country or subdivision the
\* library does not have.
country_holidays(lib, country, subdiv, year) ==
    IF << country, subdiv >> \in DOMAIN lib
    THEN Return(lib[<< country, subdiv >>][year])
    ELSE Raise("NotImplementedError")

\* Step 2 of get_calendar_rules, the try block: the library's holidays of
\* every year asked for, as "%Y-%m-%d" strings, or the exception.
RECURSIVE library_holidays(_, _, _, _, _)
library_holidays(lib, id, year_list, n, holidays) ==
    IF n > Len(year_list)
    THEN Return(holidays)
    ELSE LET holiday_obj ==
                 IF HasDash(id)
                 THEN country_holidays(lib, SplitId(id)[1], SplitId(id)[2], year_list[n])
                 ELSE country_holidays(lib, id, "", year_list[n])
         IN  IF holiday_obj.error # ""
             THEN holiday_obj
             ELSE library_holidays(lib, id, year_list, n + 1,
                      holidays \cup { strftime(d) : d \in holiday_obj.value })

\* A variant that swallows the library's failure whatever the store holds.
library_failure_always_swallowed(id, store) == TRUE

\* The except clause: the library's failure is swallowed when the store has
\* the identifier.
library_failure_swallowed(id, store) == id \in DOMAIN store

\* A variant that adds the record's weekend days to the default ones.
apply_custom_rules_weekend_added(local, custom) ==
    [weekend_days |->
         IF "weekend_days" \in DOMAIN custom
         THEN local.weekend_days \o custom["weekend_days"]
         ELSE local.weekend_days,
     holidays |->
         IF "holidays" \in DOMAIN custom /\ Len(custom["holidays"]) > 0
         THEN local.holidays \cup ToSet(custom["holidays"])
         ELSE local.holidays,
     makeup_days |->
         IF "makeup_days" \in DOMAIN custom
         THEN local.makeup_days \cup ToSet(custom["makeup_days"])
         ELSE local.makeup_days]

\* Step 3, on the record found: the weekend replaced, the holidays and the
\* makeup days added.
apply_custom_rules(local, custom) ==
    [weekend_days |->
         IF "weekend_days" \in DOMAIN custom
         THEN custom["weekend_days"]
         ELSE local.weekend_days,
     holidays |->
         IF "holidays" \in DOMAIN custom /\ Len(custom["holidays"]) > 0
         THEN local.holidays \cup ToSet(custom["holidays"])
         ELSE local.holidays,
     makeup_days |->
         IF "makeup_days" \in DOMAIN custom
         THEN local.makeup_days \cup ToSet(custom["makeup_days"])
         ELSE local.makeup_days]

\* Step 4: the sets as sorted lists.
sorted_rules(local) ==
    [weekend_days |-> local.weekend_days,
     holidays |-> sorted_strs(local.holidays),
     makeup_days |-> sorted_strs(local.makeup_days)]

\* The override records tried: each key present or not; a weekend list that
\* differs from the default, or one with a day twice; a holiday list that
\* is empty, or unsorted with a malformed string; a makeup list with a
\* date, or with a malformed string.
Restrict(f, keys) == [k \in keys |-> f[k]]

OverrideRecords ==
    { Restrict(full, keys) :
        full \in [weekend_days : { << 4, 5 >>, << 5, 5, 6 >> },
                  holidays : { << >>, << Malformed, strftime(2) >> },
                  makeup_days : { << strftime(5) >>, << Malformed >> }],
        keys \in SUBSET { "weekend_days", "holidays", "makeup_days" } }

\* initialize_custom_rules_file's sample, for the identifiers tried.
sample_rules ==
    [id \in { "CN", "X-CORP" } |->
        IF id = "CN"
        THEN [holidays |-> << >>, makeup_days |-> << strftime(5), strftime(6) >>]
        ELSE [weekend_days |-> << 5, 6 >>,
              holidays |-> << strftime(1), strftime(3) >>,
              makeup_days |-> << >>]]

\* The stores tried: empty, one record for one identifier, the sample.
EmptyStore == << >>
OverrideIds == { "CN", "X-CORP" }
Stores ==
    { EmptyStore, sample_rules }
        \cup { [id \in { i } |-> r] : i \in OverrideIds, r \in OverrideRecords }

\* custom_rules.json as load_custom_rules finds it: missing, unreadable or
\* not JSON, or holding a store.
RulesFiles ==
    { [state |-> "missing", content |-> EmptyStore],
      [state |-> "unreadable", content |-> EmptyStore] }
        \cup { [state |-> "json", content |-> c] : c \in Stores }

\* The value load_custom_rules gives the global.
loaded_rules(file) ==
    IF file.state = "missing"
    THEN sample_rules
    ELSE IF file.state = "unreadable"
    THEN EmptyStore
    ELSE file.content

\* No call of get_calendar_rules in progress, the module just imported.
IdleResolve ==
    /\ custom_rules = EmptyStore
    /\ library = [k \in Supported |-> [y \in Years |-> {}]]
    /\ resolve_pc = "idle"
    /\ calendar_id = ""
    /\ years = << >>
    /\ rules = [weekend_days |-> << >>, holidays |-> {}, makeup_days |-> {}]
    /\ resolve_error = ""
    /\ seen = << >>

InitResolve ==
    /\ IdleEngine
    /\ IdleMerge
    /\ custom_rules = EmptyStore
    /\ library \in LibraryTables
    /\ resolve_pc = "idle"
    /\ calendar_id = ""
    /\ years = << >>
    /\ rules = [weekend_days |-> << >>, holidays |-> {}, makeup_days |-> {}]
    /\ resolve_error = ""
    /\ seen = << >>

\* load_custom_rules: the global is bound to what the file holds.
LoadCustomRules ==
    /\ \E file \in RulesFiles : custom_rules' = loaded_rules(file)
    /\ UNCHANGED << library, resolve_pc, calendar_id, years, rules,
                    resolve_error, seen >>
    /\ UNCHANGED << engine_vars, merge_vars >>

\* load_custom_rules as the program runs it: with no request in progress.
LoadCustomRulesAtStartup ==
    /\ resolve_pc = "idle"
    /\ LoadCustomRules

\* get_calendar_rules, steps 1 and 2: the defaults, the library's holidays,
\* and on the library's failure the first read of custom_rules.
GetCalendarRulesLibrary ==
    /\ resolve_pc = "idle"
    /\ \E id \in CalendarIds, year_list \in YearLists :
          LET holidays == library_holidays(library, id, year_list, 1, {})
              failed == holidays.error # ""
          IN  /\ calendar_id' = id
              /\ years' = year_list
              /\ seen' = IF failed THEN << id \in DOMAIN custom_rules >> ELSE << >>
              /\ IF failed /\ ~library_failure_swallowed(id, custom_rules)
                 THEN /\ resolve_error' = "ValueError"
                      /\ resolve_pc' = "done"
                      /\ rules' = [weekend_days |-> << 5, 6 >>, holidays |-> {},
                                   makeup_days |-> {}]
                 ELSE /\ resolve_error' = ""
                      /\ resolve_pc' = "merge"
                      /\ rules' = [weekend_days |-> << 5, 6 >>,
                                   holidays |-> IF failed THEN {} ELSE holidays.value,
                                   makeup_days |-> {}]
    /\ UNCHANGED << custom_rules, library >>
    /\ UNCHANGED << engine_vars, merge_vars >>

\* Step 3's test, the second read of custom_rules; without a record, step 4.
GetCalendarRulesLookup ==
    /\ resolve_pc = "merge"
    /\ seen' = Append(seen, calendar_id \in DOMAIN custom_rules)
    /\ IF calendar_id \in DOMAIN custom_rules
       THEN /\ resolve_pc' = "fetch"
            /\ UNCHANGED rules
       ELSE /\ resolve_pc' = "done"
            /\ rules' = sorted_rules(rules)
    /\ UNCHANGED << custom_rules, library, calendar_id, years, resolve_error >>
    /\ UNCHANGED << engine_vars, merge_vars >>

\* Step 3's body, the third read of custom_rules, and step 4.
GetCalendarRulesApply ==
    /\ resolve_pc = "fetch"
    /\ seen' = Append(seen, calendar_id \in DOMAIN custom_rules)
    /\ resolve_pc' = "done"
    /\ IF calendar_id \in DOMAIN custom_rules
       THEN /\ rules' = sorted_rules(apply_custom_rules(rules, custom_rules[calendar_id]))
            /\ UNCHANGED resolve_error
       ELSE /\ resolve_error' = "KeyError"
            /\ UNCHANGED rules
    /\ UNCHANGED << custom_rules, library, calendar_id, years >>
    /\ UNCHANGED << engine_vars, merge_vars >>

\* The caller has the rule set, or the exception; the next call may start.
GetCalendarRulesDone ==
    /\ resolve_pc = "done"
    /\ resolve_pc' = "idle"
    /\ calendar_id' = ""
    /\ years' = << >>
    /\ rules' = [weekend_days |-> << >>, holidays |-> {}, makeup_days |-> {}]
    /\ resolve_error' = ""
    /\ seen' = << >>
    /\ UNCHANGED << custom_rules, library >>
    /\ UNCHANGED << engine_vars, merge_vars >>

NextResolve ==
    \/ LoadCustomRulesAtStartup
    \/ GetCalendarRulesLibrary
    \/ GetCalendarRulesLookup
    \/ GetCalendarRulesApply
    \/ GetCalendarRulesDone

SpecResolve == InitResolve /\ [][NextResolve]_vars

NextReload ==
    \/ LoadCustomRules
    \/ GetCalendarRulesLibrary
    \/ GetCalendarRulesLookup
    \/ GetCalendarRulesApply
    \/ GetCalendarRulesDone

\* The library's data fixed: every supported calendar lists its date in
\* every year.
InitReload ==
    /\ InitResolve
    /\ library = [k \in Supported |-> [y \in Years |-> { LibraryDate(y) }]]

SpecReload == InitReload /\ [][NextReload]_vars

\* ------------------------------------------------------------------ engine

\* datetime.weekday(): Monday is 0, Sunday is 6.
weekday(date) == date % 7

\* date + timedelta(days=1)
AddDay(date) == IF date >= LastDate THEN Raise("OverflowError") ELSE Return(date + 1)

\* A variant that tests the weekend and the holidays before the makeup days.
is_business_day_makeup_last(date, weekend, holidays, makeup) ==
    IF weekday(date) \in weekend \/ date \in holidays
    THEN FALSE
    ELSE TRUE

is_business_day(date, weekend, holidays, makeup) ==
    IF date \in makeup
    THEN TRUE
    ELSE LET is_weekend == weekday(date) \in weekend
             is_holiday == date \in holidays
         IN  ~is_weekend /\ ~is_holiday

\* The while loop of calculate_days_between, from one value of current_date.
RECURSIVE days_between_loop(_, _, _, _, _, _)
days_between_loop(current_date, end, count, weekend, holidays, makeup) ==
    IF current_date <= end
    THEN LET counted == IF is_business_day(current_date, weekend, holidays, makeup)
                        THEN count + 1 ELSE count
             next == AddDay(current_date)
         IN  IF next.error # ""
             THEN next
             ELSE days_between_loop(next.value, end, counted, weekend, holidays, makeup)
    ELSE Return(count)

\* A variant whose loop begins at start itself: the interval [start, end].
calculate_days_between_from_start(start, end, weekend, holidays, makeup) ==
    days_between_loop(start, end, 0, weekend, holidays, makeup)

\* A variant that counts the days off the weekend and takes one off for
\* each holiday, on a weekend day or not.
calculate_days_between_holidays_subtracted(start, end, weekend, holidays, makeup) ==
    Return(Cardinality({ d \in (start + 1) .. end : weekday(d) \notin weekend })
               - Cardinality({ d \in (start + 1) .. end : d \in holidays }))

calculate_days_between(start, end, weekend, holidays, makeup) ==
    LET first == AddDay(start)
    IN  IF first.error # ""
        THEN first
        ELSE days_between_loop(first.value, end, 0, weekend, holidays, makeup)

\* The while loop of get_future_business_date, from one value of current_date.
RECURSIVE future_date_loop(_, _, _, _, _, _)
future_date_loop(current_date, days_counted, target, weekend, holidays, makeup) ==
    IF days_counted < target
    THEN LET next == AddDay(current_date)
         IN  IF next.error # ""
             THEN next
             ELSE future_date_loop(
                      next.value,
                      IF is_business_day(next.value, weekend, holidays, makeup)
                      THEN days_counted + 1 ELSE days_counted,
                      target, weekend, holidays, makeup)
    ELSE Return(current_date)

\* A variant that counts every calendar day, business day or not.
RECURSIVE calendar_date_loop(_, _, _)
calendar_date_loop(current_date, days_counted, target) ==
    IF days_counted < target
    THEN LET next == AddDay(current_date)
         IN  IF next.error # ""
             THEN next
             ELSE calendar_date_loop(next.value, days_counted + 1, target)
    ELSE Return(current_date)

get_future_business_date_calendar_days(start, target, weekend, holidays, makeup) ==
    calendar_date_loop(start, 0, target)

get_future_business_date(start, target, weekend, holidays, makeup) ==
    future_date_loop(start, 0, target, weekend, holidays, makeup)

\* The weekend definitions the engine is tried with: none, Saturday-Sunday,
\* Friday-Saturday, their union, and the whole week.
WeekendSets == { {}, {5, 6}, {4, 5}, {4, 5, 6}, 0 .. 6 }

\* The subsets of S of at most n elements.
BoundedSubsets(S, n) == { T \in SUBSET S : Cardinality(T) <= n }

InitEngine ==
    /\ IdleMerge
    /\ IdleResolve
    /\ operation = "none"
    /\ weekend_days_set \in WeekendSets
    /\ holidays_set \in BoundedSubsets(Dates, MaxRuleDates)
    /\ makeup_days_set \in
           BoundedSubsets(Dates, MaxRuleDates - Cardinality(holidays_set))
    /\ start_date = 0
    /\ end_date = 0
    /\ business_days = 0
    /\ returned = 0
    /\ raised = ""
    /\ data = << >>
    /\ result = << >>

\* perform_calculation's days_between branch calls calculate_days_between
\* once it has checked that end_date is after start_date.
CalculateDaysBetween ==
    /\ operation = "none"
    /\ \E start \in Dates, end \in Dates :
          /\ start < end
          /\ LET r == calculate_days_between(start, end, weekend_days_set,
                                             holidays_set, makeup_days_set)
             IN  /\ operation' = "days_between"
                 /\ start_date' = start
                 /\ end_date' = end
                 /\ returned' = r.value
                 /\ raised' = r.error
    /\ UNCHANGED << weekend_days_set, holidays_set, makeup_days_set, business_days >>
    /\ UNCHANGED << data, result >>
    /\ UNCHANGED << merge_vars, resolve_vars >>

\* perform_calculation's get_future_date branch calls get_future_business_date
\* once it has checked that business_days is a non-negative integer.
GetFutureBusinessDate ==
    /\ operation = "none"
    /\ \E start \in Dates, n \in 0 .. MaxCount :
          LET r == get_future_business_date(start, n, weekend_days_set,
                                            holidays_set, makeup_days_set)
          IN  /\ operation' = "get_future_date"
              /\ start_date' = start
              /\ business_days' = n
              /\ returned' = r.value
              /\ raised' = r.error
    /\ UNCHANGED << weekend_days_set, holidays_set, makeup_days_set, end_date >>
    /\ UNCHANGED << data, result >>
    /\ UNCHANGED << merge_vars, resolve_vars >>

NextEngine == CalculateDaysBetween \/ GetFutureBusinessDate

SpecEngine == InitEngine /\ [][NextEngine]_vars

\* The business days of the rule set in progress, as a set of dates.
IsBusinessDay(d) ==
    is_business_day(d, weekend_days_set, holidays_set, makeup_days_set)

\* The number of business days d with start < d <= end.
BusinessDaysIn(start, end) ==
    Cardinality({ d \in (start + 1) .. end : IsBusinessDay(d) })

\* C1: a makeup day is a business day whatever its weekday and whether or
\* not it is a holiday; any other date is a business day exactly when its
\* weekday is not a weekend day and it is not a holiday.
C1_MakeupPrecedence ==
    \A d \in Calendar :
        /\ d \in makeup_days_set => IsBusinessDay(d)
        /\ d \notin makeup_days_set =>
              (IsBusinessDay(d) <=>
                  (weekday(d) \notin weekend_days_set /\ d \notin holidays_set))

\* C1 witness: a one-day count whose only day is a makeup day that is also
\* a holiday on a weekend day, and is counted.
C1_Witness ==
    /\ operation = "days_between"
    /\ raised = ""
    /\ end_date = start_date + 1
    /\ end_date \in makeup_days_set
    /\ end_date \in holidays_set
    /\ weekday(end_date) \in weekend_days_set
    /\ returned = 1

C3_ProjectionReachesCount ==
    (operation = "get_future_date" /\ raised = "") =>
        IF business_days = 0
        THEN returned = start_date
        ELSE /\ returned > start_date
             /\ IsBusinessDay(returned)
             /\ BusinessDaysIn(start_date, returned) = business_days
             /\ \A r \in (start_date + 1) .. (returned - 1) :
                   BusinessDaysIn(start_date, r) < business_days

\* C3 witness: a projection of two business days that skips a day.
C3_Witness ==
    /\ operation = "get_future_date"
    /\ raised = ""
    /\ business_days = 2
    /\ returned > start_date + 2

\* The end of the calendar is reached only by a projection under a rule set
\* whose weekend is the whole week: a walk that no later day could end.
OverflowOnlyWhenWalkCannotEnd ==
    raised = "OverflowError" =>
        (operation = "get_future_date" /\ weekend_days_set = 0 .. 6)

\* C10: every call of calculate_days_between (start < end) and of
\* get_future_business_date (count >= 0) returns a value, whatever the rule
\* set, the whole week as weekend included.
C10_EveryCallReturns ==
    operation \in {"days_between", "get_future_date"} => raised = ""

\* calculate_days_between under the rule set in progress, with other
\* holidays or over another interval.
CountWithHolidays(holidays) ==
    calculate_days_between(start_date, end_date, weekend_days_set, holidays,
                           makeup_days_set)
CountOver(start, end) ==
    calculate_days_between(start, end, weekend_days_set, holidays_set,
                           makeup_days_set)

\* C17: for start < end and a date h that falls on a weekend day,
\* calculate_days_between returns the same count with h among the holidays
\* as without it.
C17_WeekendHolidayNotCountedTwice ==
    operation = "days_between" =>
        \A h \in Dates :
            weekday(h) \in weekend_days_set =>
                /\ CountWithHolidays(holidays_set \cup { h }) = Return(returned)
                /\ CountWithHolidays(holidays_set \ { h }) = Return(returned)

\* C17 witness: a count over days among which a holiday falls on a weekend
\* day and another on a working day; only the second takes a day off the
\* count of the days that are no weekend days.
C17_Witness ==
    /\ operation = "days_between"
    /\ raised = ""
    /\ makeup_days_set = {}
    /\ \E h \in holidays_set, g \in holidays_set :
          /\ start_date < h /\ h <= end_date
          /\ start_date < g /\ g <= end_date
          /\ weekday(h) \in weekend_days_set
          /\ weekday(g) \notin weekend_days_set
    /\ returned =
          Cardinality({ d \in (start_date + 1) .. end_date :
                          weekday(d) \notin weekend_days_set }) - 1
    /\ returned > 0

parse_dates_malformed_as_last(list) ==
    { IF strptime(list[i]).error = "" THEN strptime(list[i]).value ELSE MaxDate :
        i \in 1 .. Len(list) }

\* perform_calculation's reading of a rule set's date strings: each string
\* is parsed, and one that does not parse is skipped.
parse_dates(list) ==
    { strptime(list[i]).value :
        i \in { j \in 1 .. Len(list) : strptime(list[j]).error = "" } }

\* is_business_day on the sets perform_calculation extracts from a rule set.
IsBusinessDayUnder(date, calendar_rules) ==
    is_business_day(date,
                    ToSet(Get(calendar_rules, "weekend_days")),
                    parse_dates(Get(calendar_rules, "holidays")),
                    parse_dates(Get(calendar_rules, "makeup_days")))

\* ------------------------------------------------------------------ calculation

\* business_days as the request gives it: absent, an integer, or a value
\* that is no integer.
NoneValue == [type |-> "NoneType", value |-> 0]
IntValue(n) == [type |-> "int", value |-> n]
NotAnInt == [type |-> "str", value |-> 0]

\* The messages of the ValueErrors perform_calculation raises.
InvalidStartDate == "Invalid start_date format"
EndDateRequired == "end_date is required for days_between operation"
InvalidEndDate == "Invalid end_date format"
EndNotAfterStart == "end_date must be after start_date"
BusinessDaysRequired == "business_days is required for get_future_date operation"
BusinessDaysNotNonNegative == "business_days must be a non-negative integer"
InvalidOperation == "Invalid operation"
\* The message of get_calendar_rules' ValueError.
CalendarNotFound == "Calendar not found in holidays library or custom rules"

ValueErrors ==
    { InvalidStartDate, EndDateRequired, InvalidEndDate, EndNotAfterStart,
      BusinessDaysRequired, BusinessDaysNotNonNegative, InvalidOperation,
      CalendarNotFound }

\* A variant that accepts an end date on or before the start date.
end_not_after_start_any(start_dt, end_dt) == FALSE

\* The days_between branch's test of the two dates.
end_not_after_start(start_dt, end_dt) == end_dt <= start_dt

\* A variant that accepts any integer.
not_non_negative_int_any(days) == days.type # "int"

\* The get_future_date branch's test of business_days.
not_non_negative_int(days) == days.type # "int" \/ days.value < 0

\* perform_calculation: the dict it returns, or the exception it ends with.
perform_calculation(op, start_str, calendar_rules, end_str, days) ==
    LET start_dt == strptime(start_str)
        weekend == ToSet(Get(calendar_rules, "weekend_days"))
        holidays == parse_dates(Get(calendar_rules, "holidays"))
        makeup == parse_dates(Get(calendar_rules, "makeup_days"))
    IN  IF start_dt.error # ""
        THEN Raise(InvalidStartDate)
        ELSE IF op = "days_between"
        THEN IF end_str = ""
             THEN Raise(EndDateRequired)
             ELSE LET end_dt == strptime(end_str)
                  IN  IF end_dt.error # ""
                      THEN Raise(InvalidEndDate)
                      ELSE IF end_not_after_start(start_dt.value, end_dt.value)
                      THEN Raise(EndNotAfterStart)
                      ELSE LET result_count ==
                                   calculate_days_between(start_dt.value, end_dt.value,
                                                          weekend, holidays, makeup)
                           IN  IF result_count.error # ""
                               THEN result_count
                               ELSE Return([business_days |-> result_count.value,
                                            start_date |-> start_str,
                                            end_date |-> end_str])
        ELSE IF op = "get_future_date"
        THEN IF days.type = "NoneType"
             THEN Raise(BusinessDaysRequired)
             ELSE IF not_non_negative_int(days)
             THEN Raise(BusinessDaysNotNonNegative)
             ELSE LET future_dt ==
                          get_future_business_date(start_dt.value, days.value,
                                                   weekend, holidays, makeup)
                  IN  IF future_dt.error # ""
                      THEN future_dt
                      ELSE Return([future_date |-> strftime(future_dt.value),
                                   start_date |-> start_str,
                                   business_days |-> days.value])
        ELSE Raise(InvalidOperation)

\* get_calendar_rules run against one store: the rule set it returns, or its
\* ValueError.
get_calendar_rules(lib, store, id, year_list) ==
    LET holidays == library_holidays(lib, id, year_list, 1, {})
        failed == holidays.error # ""
        local == [weekend_days |-> << 5, 6 >>,
                  holidays |-> IF failed THEN {} ELSE holidays.value,
                  makeup_days |-> {}]
    IN  IF failed /\ ~library_failure_swallowed(id, store)
        THEN Raise(CalendarNotFound)
        ELSE Return(sorted_rules(IF id \in DOMAIN store
                                 THEN apply_custom_rules(local, store[id])
                                 ELSE local))

\* calculate's loop over calendar_ids: the rule sets fetched, or the
\* ValueError of the first identifier that is not found.
RECURSIVE fetch_rules(_, _, _, _, _, _)
fetch_rules(lib, store, calendar_ids, year_list, n, rules_list) ==
    IF n > Len(calendar_ids)
    THEN Return(rules_list)
    ELSE LET fetched == get_calendar_rules(lib, store, calendar_ids[n], year_list)
         IN  IF fetched.error # ""
             THEN fetched
             ELSE fetch_rules(lib, store, calendar_ids, year_list, n + 1,
                              Append(rules_list, fetched.value))

\* The rule set calculate works with: the merge of the rule sets of
\* calendar_ids when the request has them, else its calendar_rules.
request_rules(request, rules_list) ==
    IF DOMAIN request.calendar_ids # {}
    THEN IF rules_list.error # ""
         THEN rules_list
         ELSE Return(merge_calendar_rules(rules_list.value))
    ELSE Return(request.calendar_rules)

\* The outcome of perform_calculation as calculate calls it, or of the
\* resolution before it when that fails.
request_outcome(request, calendar_rules) ==
    IF calendar_rules.error # ""
    THEN calendar_rules
    ELSE perform_calculation(request.operation, request.start_date,
                             calendar_rules.value, request.end_date,
                             request.business_days)

\* A request's way through calculate once its required fields are found
\* present: the rule sets fetched, the rule set, the outcome.
evaluate(lib, store, request, year_list) ==
    request_outcome(request,
        request_rules(request,
            fetch_rules(lib, store, request.calendar_ids, year_list, 1, << >>)))

\* result['calendar_rules'] = calendar_rules
WithCalendarRules(dict, calendar_rules) ==
    [k \in DOMAIN dict \cup { "calendar_rules" } |->
        IF k = "calendar_rules" THEN calendar_rules ELSE dict[k]]

\* The requests tried.  An absent string is "", an absent dict or list is
\* empty: the endpoint tells neither from the other.
StartStrings == { "", Malformed, strftime(1), strftime(3) }
EndStrings == { "", Malformed } \cup { strftime(d) : d \in Dates }
CountValues == { NoneValue, NotAnInt } \cup { IntValue(n) : n \in -1 .. MaxCount }

\* calendar_rules given in a request: Saturday-Sunday with a holiday, a
\* string that is no date and a makeup Saturday; the whole week as weekend;
\* a dict with holidays only.
DirectRuleSets ==
    { [weekend_days |-> << 5, 6 >>,
       holidays |-> << strftime(2), Malformed >>,
       makeup_days |-> << strftime(5) >>],
      [weekend_days |-> << 0, 1, 2, 3, 4, 5, 6 >>,
       holidays |-> << >>,
       makeup_days |-> << >>],
      [holidays |-> << strftime(2) >>] }

CalendarIdLists ==
    { << "CN" >>, << "X-CORP" >>, << "CN", "X-CORP" >>, << "US-NY", "CN" >> }

RuleSources ==
    { [calendar_rules |-> r, calendar_ids |-> << >>] : r \in DirectRuleSets \cup { << >> } }
        \cup { [calendar_rules |-> << >>, calendar_ids |-> l] : l \in CalendarIdLists }
        \cup { [calendar_rules |-> [holidays |-> << strftime(2) >>],
                calendar_ids |-> << "CN" >>] }

Request(op, start, end, days, source) ==
    [operation |-> op, start_date |-> start, end_date |-> end, business_days |-> days,
     calendar_rules |-> source.calendar_rules, calendar_ids |-> source.calendar_ids]

Requests ==
    { Request("days_between", s, e, NoneValue, c) :
          s \in StartStrings, e \in EndStrings, c \in RuleSources }
        \cup { Request("get_future_date", s, "", n, c) :
                  s \in StartStrings, n \in CountValues, c \in RuleSources }
        \cup { Request(op, s, "", NoneValue, c) :
                  op \in { "", "bogus" }, s \in StartStrings, c \in RuleSources }

\* POST /api/calculate, the whole handler: the required fields, the rule
\* set (fetched and merged, or the request's), perform_calculation, and
\* the response.
Calculate ==
    /\ DOMAIN result = {}
    /\ \E request \in Requests :
        \E year_list \in IF DOMAIN request.calendar_ids # {}
                          THEN YearLists
                          ELSE { << >> } :
        \E rules_list \in { fetch_rules(library, custom_rules, request.calendar_ids,
                                         year_list, 1, << >>) } :
        \E calendar_rules \in { request_rules(request, rules_list) } :
        \E outcome \in { request_outcome(request, calendar_rules) } :
          LET rejected ==
                  IF request.operation = ""
                  THEN "operation is required"
                  ELSE IF request.start_date = ""
                  THEN "start_date is required"
                  ELSE IF DOMAIN request.calendar_rules = {}
                          /\ DOMAIN request.calendar_ids = {}
                  THEN "calendar_rules or calendar_ids is required"
                  ELSE ""
              fetching == rejected = "" /\ DOMAIN request.calendar_ids # {}
              called == rejected = "" /\ calendar_rules.error = ""
              start_dt == strptime(request.start_date)
              end_dt == strptime(request.end_date)
          IN  /\ data' = request
              /\ years' = IF fetching THEN year_list ELSE years
              /\ IF fetching /\ rules_list.error = ""
                 THEN /\ calendar_rules_list' = rules_list.value
                      /\ merged' = calendar_rules.value
                      /\ merge_pc' = "done"
                 ELSE UNCHANGED merge_vars
              /\ operation' = IF called THEN request.operation ELSE operation
              /\ IF called /\ start_dt.error = ""
                 THEN /\ start_date' = start_dt.value
                      /\ weekend_days_set' =
                             ToSet(Get(calendar_rules.value, "weekend_days"))
                      /\ holidays_set' =
                             parse_dates(Get(calendar_rules.value, "holidays"))
                      /\ makeup_days_set' =
                             parse_dates(Get(calendar_rules.value, "makeup_days"))
                      /\ end_date' =
                             IF request.operation = "days_between" /\ end_dt.error = ""
                             THEN end_dt.value ELSE end_date
                      /\ business_days' =
                             IF request.operation = "get_future_date"
                                /\ request.business_days.type = "int"
                             THEN request.business_days.value ELSE business_days
                 ELSE UNCHANGED << start_date, weekend_days_set, holidays_set,
                                   makeup_days_set, end_date, business_days >>
              /\ raised' = IF rejected = "" THEN outcome.error ELSE ""
              /\ returned' =
                     IF rejected # "" \/ outcome.error # ""
                     THEN returned
                     ELSE IF request.operation = "days_between"
                     THEN outcome.value.business_days
                     ELSE (strptime(outcome.value.future_date)).value
              /\ result' =
                     IF rejected # ""
                     THEN [status |-> 400, json |-> [error |-> rejected]]
                     ELSE IF outcome.error \in ValueErrors
                     THEN [status |-> 400, json |-> [error |-> outcome.error]]
                     ELSE IF outcome.error # ""
                     THEN [status |-> 500, json |-> << >>]
                     ELSE [status |-> 200,
                           json |-> WithCalendarRules(outcome.value,
                                                      calendar_rules.value)]
    /\ UNCHANGED << custom_rules, library, resolve_pc, calendar_id, rules,
                    resolve_error, seen >>

\* load_custom_rules at startup: before the first request is served.
LoadCustomRulesBeforeRequests ==
    /\ DOMAIN result = {}
    /\ LoadCustomRulesAtStartup

\* Before startup: nothing loaded, no request served; the library's data
\* fixed.
InitCalculate == InitReload

NextCalculate ==
    \/ LoadCustomRulesBeforeRequests
    \/ Calculate

SpecCalculate == InitCalculate /\ [][NextCalculate]_vars

\* perform_calculation was called with a start date that parses.
Evaluated(op) ==
    /\ DOMAIN result # {}
    /\ operation = op
    /\ strptime(data.start_date).error = ""

\* The start and the end of the request, both given and both dates.
RangeGiven ==
    /\ Evaluated("days_between")
    /\ strptime(data.end_date).error = ""

\* C11: perform_calculation's days_between, given a start and an end that
\* are dates, raises "end_date must be after start_date" whenever end <=
\* start, end = start included, and then returns no business_days; it
\* returns business_days only for an end after the start.
C11_InvalidRange ==
    RangeGiven =>
        LET start == strptime(data.start_date).value
            end == strptime(data.end_date).value
        IN  /\ end <= start =>
                  /\ raised = EndNotAfterStart
                  /\ result.status = 400
                  /\ "business_days" \notin DOMAIN result.json
            /\ "business_days" \in DOMAIN result.json => end > start

\* C11 witness: a request whose end is its start is refused.
C11_Witness ==
    /\ RangeGiven
    /\ data.end_date = data.start_date
    /\ raised = EndNotAfterStart
    /\ result.json = [error |-> EndNotAfterStart]

\* C12: perform_calculation's get_future_date, given a start that is a date
\* and an integer business_days, raises "business_days must be a
\* non-negative integer" whenever business_days < 0, and then returns no
\* future_date; for business_days >= 0 it does not raise it.
C12_InvalidCount ==
    (Evaluated("get_future_date") /\ data.business_days.type = "int") =>
        /\ data.business_days.value < 0 =>
              /\ raised = BusinessDaysNotNonNegative
              /\ result.status = 400
              /\ "future_date" \notin DOMAIN result.json
        /\ data.business_days.value >= 0 => raised # BusinessDaysNotNonNegative

\* C12 witness: a request for -1 business days is refused.
C12_Witness ==
    /\ Evaluated("get_future_date")
    /\ data.business_days = IntValue(-1)
    /\ raised = BusinessDaysNotNonNegative
    /\ result.json = [error |-> BusinessDaysNotNonNegative]

\* A list of date strings, an override record and a store without the
\* strings that are no dates.
WellFormedOnly(list) == SelectSeq(list, LAMBDA s : strptime(s).error = "")
CleanRecord(record) ==
    [k \in DOMAIN record |->
        IF k \in { "holidays", "makeup_days" }
        THEN WellFormedOnly(record[k])
        ELSE record[k]]
CleanStore(store) == [id \in DOMAIN store |-> CleanRecord(store[id])]

\* The request was served from its calendar_ids.
ServedFromIds == DOMAIN result # {} /\ years # << >>

\* C15: a request served from calendar_ids ends as it would with the
\* malformed holiday and makeup strings removed from the override records:
\* the same exception or none, from get_calendar_rules or from
\* perform_calculation, and the same count or future date.
C15_MalformedStringsSkipped ==
    ServedFromIds =>
        \A clean \in { evaluate(library, CleanStore(custom_rules), data, years) } :
            /\ raised = clean.error
            /\ result.status = 200 =>
                  \A k \in DOMAIN clean.value : result.json[k] = clean.value[k]

\* C15 witness: a count over days that include a holiday, under a merged
\* rule set whose holidays have a string that is no date.
C15_Witness ==
    /\ ServedFromIds
    /\ CleanStore(custom_rules) # custom_rules
    /\ Malformed \in ToSet(merged.holidays)
    /\ result.status = 200
    /\ "business_days" \in DOMAIN result.json
    /\ \E d \in holidays_set : start_date < d /\ d <= end_date
    /\ result.json.business_days < end_date - start_date

\* ------------------------------------------------------------------ merge, checked

InitMerge ==
    /\ IdleEngine
    /\ IdleResolve
    /\ calendar_rules_list \in SeqUpTo(RuleSets, MaxCalendars)
    /\ merged = [weekend_days |-> << >>, holidays |-> << >>, makeup_days |-> << >>]
    /\ merge_pc = "ready"

NextMerge == MergeCalendarRules

SpecMerge == InitMerge /\ [][NextMerge]_vars

\* The union of one field over the calendars merged, as a set.
FieldUnion(key) ==
    UNION { ToSet(calendar_rules_list[i][key]) : i \in 1 .. Len(calendar_rules_list) }

\* C4: merging two or more rule sets gives the union of their weekend days,
\* of their holidays and of their makeup days; two inputs with disjoint
\* holidays give as many holidays as both together, and Saturday-Sunday
\* merged with Friday-Saturday gives Friday, Saturday, Sunday.
C4_MergeIsFieldwiseUnion ==
    (merge_pc = "done" /\ Len(calendar_rules_list) >= 2) =>
        /\ ToSet(merged.weekend_days) = FieldUnion("weekend_days")
        /\ ToSet(merged.holidays) = FieldUnion("holidays")
        /\ ToSet(merged.makeup_days) = FieldUnion("makeup_days")
        /\ DOMAIN merged = {"weekend_days", "holidays", "makeup_days"}
        /\ Len(calendar_rules_list) = 2 =>
             LET a == calendar_rules_list[1]
                 b == calendar_rules_list[2]
             IN  /\ ToSet(a.holidays) \cap ToSet(b.holidays) = {} =>
                       Len(merged.holidays) = Len(a.holidays) + Len(b.holidays)
                 /\ (a.weekend_days = << 5, 6 >> /\ b.weekend_days = << 4, 5 >>) =>
                       merged.weekend_days = << 4, 5, 6 >>

\* C4 witness: Saturday-Sunday merged with Friday-Saturday, with disjoint
\* non-empty holidays.
C4_Witness ==
    /\ merge_pc = "done"
    /\ Len(calendar_rules_list) = 2
    /\ calendar_rules_list[1].weekend_days = << 5, 6 >>
    /\ calendar_rules_list[2].weekend_days = << 4, 5 >>
    /\ calendar_rules_list[1].holidays # << >>
    /\ calendar_rules_list[2].holidays # << >>
    /\ ToSet(calendar_rules_list[1].holidays) \cap ToSet(calendar_rules_list[2].holidays) = {}
    /\ Len(merged.holidays) = 2
    /\ merged.weekend_days = << 4, 5, 6 >>

\* The dates that are not business days under a rule set.
DaysOff(calendar_rules) ==
    LET weekend == ToSet(Get(calendar_rules, "weekend_days"))
        holidays == parse_dates(Get(calendar_rules, "holidays"))
        makeup == parse_dates(Get(calendar_rules, "makeup_days"))
    IN  { d \in Calendar : ~is_business_day(d, weekend, holidays, makeup) }

SameSets(r, q) ==
    /\ ToSet(r.weekend_days) = ToSet(q.weekend_days)
    /\ ToSet(r.holidays) = ToSet(q.holidays)
    /\ ToSet(r.makeup_days) = ToSet(q.makeup_days)

\* C13: merging no rule set gives the rule set with no weekend day, no
\* holiday and no makeup day, and merging that rule set with a rule set r,
\* before it or after it, gives the weekend days, holidays and makeup days
\* of r.
C13_EmptyIsIdentity ==
    merge_pc = "done" =>
        /\ Len(calendar_rules_list) = 0 => merged = EmptyRuleSet
        /\ (Len(calendar_rules_list) = 2 /\ calendar_rules_list[1] = EmptyRuleSet) =>
              SameSets(merged, calendar_rules_list[2])
        /\ (Len(calendar_rules_list) = 2 /\ calendar_rules_list[2] = EmptyRuleSet) =>
              SameSets(merged, calendar_rules_list[1])

\* C13 witness: the empty rule set merged with a rule set that has weekend
\* days, a holiday and a makeup day.
C13_Witness ==
    /\ merge_pc = "done"
    /\ Len(calendar_rules_list) = 2
    /\ calendar_rules_list[1] = EmptyRuleSet
    /\ calendar_rules_list[2].weekend_days = << 6, 5, 5 >>
    /\ merged.weekend_days = << 5, 6 >>
    /\ Len(merged.holidays) = 1
    /\ Len(merged.makeup_days) = 1

\* C14: merging a single rule set returns that rule set: its weekend days,
\* holidays and makeup days as they are, in their order.
C14_MergeOfOneIsItself ==
    (merge_pc = "done" /\ Len(calendar_rules_list) = 1) =>
        /\ merged = calendar_rules_list[1]
        /\ calendar_rules_list[1] \in RuleSets

\* C14 witness: a single rule set whose weekend list is unsorted and has a
\* day twice comes back as it is.
C14_Witness ==
    /\ merge_pc = "done"
    /\ Len(calendar_rules_list) = 1
    /\ calendar_rules_list[1].weekend_days = << 6, 5, 5 >>
    /\ merged.weekend_days = << 6, 5, 5 >>
    /\ merged.holidays # << >>

C18_NoDayOffInvented ==
    (merge_pc = "done" /\ Len(calendar_rules_list) >= 1) =>
        DaysOff(merged) \subseteq
            UNION { DaysOff(calendar_rules_list[i]) : i \in 1 .. Len(calendar_rules_list) }

\* C18 witness: a Wednesday that is a holiday and a makeup day of the first
\* calendar, and neither in the second, is a business day under both and
\* under the merged rule set, in which a Friday is a day off.
C18_Witness ==
    /\ merge_pc = "done"
    /\ Len(calendar_rules_list) = 2
    /\ strftime(2) \in ToSet(calendar_rules_list[1].holidays)
    /\ strftime(2) \in ToSet(calendar_rules_list[1].makeup_days)
    /\ strftime(2) \notin ToSet(calendar_rules_list[2].holidays)
    /\ strftime(2) \notin ToSet(calendar_rules_list[2].makeup_days)
    /\ IsBusinessDayUnder(2, merged)
    /\ ~IsBusinessDayUnder(4, merged)

\* The rule sets merge is tried with in every order: those with one holiday
\* and one makeup day, under each weekend list, and the empty rule set.
OrderRuleSets ==
    { r \in RuleSets : Len(r.holidays) = 1 /\ Len(r.makeup_days) = 1 }
        \cup { EmptyRuleSet }

InitMergeOrder ==
    /\ IdleEngine
    /\ IdleResolve
    /\ calendar_rules_list \in SeqUpTo(OrderRuleSets, MaxCalendars)
    /\ merged = [weekend_days |-> << >>, holidays |-> << >>, makeup_days |-> << >>]
    /\ merge_pc = "ready"

SpecMergeOrder == InitMergeOrder /\ [][NextMerge]_vars

\* The sequence in the order a permutation of its indexes gives.
Permuted(list, p) == [i \in 1 .. Len(list) |-> list[p[i]]]

\* C19: for two or more rule sets, the merged rule set is the one that
\* merging them in any other order gives, and the one that merging them
\* with any of them given once more gives: the same three lists, in the
\* same order.
C19_OrderAndRepetitionIndependent ==
    (merge_pc = "done" /\ Len(calendar_rules_list) >= 2) =>
        /\ \A p \in Permutations(1 .. Len(calendar_rules_list)) :
               merge_calendar_rules(Permuted(calendar_rules_list, p)) = merged
        /\ \A i \in 1 .. Len(calendar_rules_list) :
               /\ merge_calendar_rules(
                      Append(calendar_rules_list, calendar_rules_list[i])) = merged
               /\ merge_calendar_rules(
                      << calendar_rules_list[i] >> \o calendar_rules_list) = merged

\* C19 witness: Saturday-Sunday merged with Friday-Saturday, with different
\* holidays, gives the lists that the other order gives.
C19_Witness ==
    /\ merge_pc = "done"
    /\ Len(calendar_rules_list) = 2
    /\ calendar_rules_list[1].weekend_days = << 5, 6 >>
    /\ calendar_rules_list[2].weekend_days = << 4, 5 >>
    /\ calendar_rules_list[1].holidays = << strftime(4) >>
    /\ calendar_rules_list[2].holidays = << strftime(2) >>
    /\ merged.weekend_days = << 4, 5, 6 >>
    /\ merged.holidays = << strftime(2), strftime(4) >>
    /\ merge_calendar_rules(<< calendar_rules_list[2], calendar_rules_list[1] >>) = merged

\* ------------------------------------------------------------------ resolver, checked

\* Whether the holidays library has the identifier's country or subdivision.
LibraryKnows(id) ==
    (IF HasDash(id) THEN << SplitId(id)[1], SplitId(id)[2] >> ELSE << id, "" >>)
        \in Supported

\* The library's dates for the identifier over the years asked for, as
\* strings; none for an identifier it does not know.
LibraryStrings ==
    IF LibraryKnows(calendar_id)
    THEN LET key == IF HasDash(calendar_id)
                    THEN << SplitId(calendar_id)[1], SplitId(calendar_id)[2] >>
                    ELSE << calendar_id, "" >>
         IN  { strftime(d) : d \in UNION { library[key][y] : y \in ToSet(years) } }
    ELSE {}

\* Whether the store has a record for the identifier, and the record's list
\* under a key (none when the record or the key is missing).
HasOverride == calendar_id \in DOMAIN custom_rules
OverrideList(key) ==
    IF HasOverride THEN Get(custom_rules[calendar_id], key) ELSE << >>

Resolved == resolve_pc = "done" /\ resolve_error = ""

\* C6: get_calendar_rules raises ValueError (UnknownCalendar) exactly when
\* the library does not know the identifier and the store has no record for
\* it; a record makes it return a rule set for an identifier the library
\* does not know, and an identifier the library knows always gets one.
C6_UnknownCalendarExactly ==
    resolve_pc = "done" =>
        /\ resolve_error = "ValueError" <=>
              (~LibraryKnows(calendar_id) /\ ~HasOverride)
        /\ (~LibraryKnows(calendar_id) /\ HasOverride) => resolve_error = ""
        /\ LibraryKnows(calendar_id) => resolve_error = ""

\* C6 witness: an identifier the library does not know is resolved from its
\* override record.
C6_Witness ==
    /\ Resolved
    /\ ~LibraryKnows(calendar_id)
    /\ HasOverride
    /\ rules.makeup_days # << >>

\* C7: the resolved weekend is the record's when it gives one and Saturday,
\* Sunday otherwise; the holidays are the library's over all the years
\* together with the record's; the makeup days are the record's.
C7_ResolvedFields ==
    Resolved =>
        /\ IF HasOverride /\ "weekend_days" \in DOMAIN custom_rules[calendar_id]
           THEN ToSet(rules.weekend_days) = ToSet(custom_rules[calendar_id]["weekend_days"])
           ELSE ToSet(rules.weekend_days) = { 5, 6 }
        /\ ToSet(rules.holidays) = LibraryStrings \cup ToSet(OverrideList("holidays"))
        /\ ~LibraryKnows(calendar_id) =>
              ToSet(rules.holidays) = ToSet(OverrideList("holidays"))
        /\ ToSet(rules.makeup_days) = ToSet(OverrideList("makeup_days"))

\* C7 witness: a calendar the library knows, with a holiday in each of the
\* two years, and a record that replaces the weekend by Friday, Saturday
\* and adds two holiday strings, one of them the library's, and a makeup day.
C7_Witness ==
    /\ Resolved
    /\ LibraryKnows(calendar_id)
    /\ HasOverride
    /\ Cardinality(LibraryStrings) = 2
    /\ rules.weekend_days = << 4, 5 >>
    /\ Len(rules.holidays) = 3
    /\ Len(rules.makeup_days) = 1

\* A rule set with its three fields, no element twice in any of them, and
\* only well-formed dates among its holidays and makeup days.
NoDuplicates(list) == Cardinality(ToSet(list)) = Len(list)
WellFormedRuleSet(r) ==
    /\ DOMAIN r = { "weekend_days", "holidays", "makeup_days" }
    /\ NoDuplicates(r.weekend_days)
    /\ NoDuplicates(r.holidays)
    /\ NoDuplicates(r.makeup_days)
    /\ \A s \in ToSet(r.holidays) \cup ToSet(r.makeup_days) : strptime(s).error = ""

\* C8: every rule set get_calendar_rules returns, and every merge of none,
\* one or several such rule sets, is a well-formed rule set.
C8_RuleSetsWellFormed ==
    Resolved =>
        /\ WellFormedRuleSet(rules)
        /\ WellFormedRuleSet(merge_calendar_rules(<< >>))
        /\ WellFormedRuleSet(merge_calendar_rules(<< rules >>))
        /\ WellFormedRuleSet(merge_calendar_rules(<< rules, rules >>))

\* C9: a call of get_calendar_rules sees one store: its reads of
\* custom_rules agree on whether the identifier has a record, and it
\* returns no rule set for an identifier that the library does not know
\* and that the store it last read does not have.
C9_SingleSnapshot ==
    resolve_pc = "done" =>
        /\ \A i \in 1 .. Len(seen), j \in 1 .. Len(seen) : seen[i] = seen[j]
        /\ resolve_error # "KeyError"
        /\ (resolve_error = "" /\ ~LibraryKnows(calendar_id)) => seen[Len(seen)]

====
